---- MODULE Spec2Model ----
(***************************************************************************)
(* A model of bpd_helper.py: the registries _ALL_VARIABLES, _ALL_EVENTS    *)
(* and _ALL_BEHAVIORS, the constructors that fill them, the two packing    *)
(* functions, and generate_bpd, the pass that walks the event/behavior     *)
(* link graph and flattens it into the output arrays.                      *)
(*                                                                         *)
(* Objects are references: a Behavior is its position in _ALL_BEHAVIORS    *)
(* (every Behavior registers itself on construction and none is removed),  *)
(* a BpdVariable is its position in var_heap (creation order).  A command  *)
(* string is modelled by the record of the values formatted into it.       *)
(***************************************************************************)
EXTENDS Integers, Sequences, FiniteSets, TLC

VARIABLES
    _ALL_VARIABLES,          \* list of BpdVariable references
    var_heap,                \* every BpdVariable ever constructed, by reference
    var_links,               \* the VariableLinkData objects constructed so far (SpecVars)
    call,                    \* the last registry call and what it saw (history)
    returned,                \* what the last packing call returned: <<value>>, or
                             \* <<>> when none has returned (history)
    _ALL_EVENTS,             \* list of EventData records
    _ALL_BEHAVIORS,          \* list (and heap) of Behavior records
    pc,                      \* "script" | "for" | "while" | "done" | "edited" |
                             \* "raised"
    exception,               \* the exception that ended the last call, or "None"
    event,                   \* generate_bpd: position of the for loop in _ALL_EVENTS
    event_commands,          \* generate_bpd locals
    behavior_commands,
    behavior_link_commands,
    variable_link_commands,
    variable_links,
    behavior_stack,
    known_behaviors,
    set_order,               \* this process's iteration order of each set built so far
    written,                 \* the content of the output file
    passes,                  \* completed generate_bpd calls (history)
    first_written,           \* what the first completed call wrote (history)
    popped,                  \* Behaviors drained in this pass, in order (history)
    fresh_log,               \* per link list rendered in this pass: the new Behaviors
                             \* in encounter order (history)
    span_log,                \* per link list rendered in this pass: whose it is, the
                             \* lengths of the two command lists before it was
                             \* rendered and the stack it left pending (history)
    stamped,                 \* per Behavior: the passes in which its two scratch
                             \* fields were last assigned, 0 for never (history)
    late_links               \* output links added after a finished pass (SpecEdit)

registry_vars == <<_ALL_VARIABLES, var_heap, var_links, call, returned>>
graph_vars == <<_ALL_EVENTS, _ALL_BEHAVIORS>>
local_vars == <<event, event_commands, behavior_commands, behavior_link_commands,
                variable_link_commands, variable_links, behavior_stack,
                known_behaviors>>
history_vars == <<written, passes, first_written, popped, fresh_log, span_log,
                  stamped, late_links>>
vars == <<registry_vars, graph_vars, local_vars, history_vars, pc, exception, set_order>>

----------------------------------------------------------------------------
(* Bounds of the model. *)
MaxLinks == 3            \* output links added by the script before generating
MaxPasses == 2           \* generate_bpd calls in one run
MaxObjects == 5          \* BpdVariable objects constructed in one run (SpecVars)
MaxIdx == 2              \* largest explicit idx / edit index tried (SpecVars)
MaxVarLinks == 2         \* VariableLinkData objects constructed (SpecVars)
MaxLateLinks == 1        \* output links added between two generate_bpd calls

(* example.py declares two variables before anything else. *)
NumVariables == 2

----------------------------------------------------------------------------
(* Sequence helpers. *)
Range(s) == {s[i] : i \in DOMAIN s}

Reverse(s) == [i \in 1..Len(s) |-> s[Len(s) + 1 - i]]

RECURSIVE SumLen(_)
SumLen(ss) == IF ss = <<>> THEN 0 ELSE Len(Head(ss)) + SumLen(Tail(ss))

Perms(s) == {p \in [1..Len(s) -> Range(s)] : \A i, j \in 1..Len(s) : i # j => p[i] # p[j]}

----------------------------------------------------------------------------
(* struct.pack / struct.unpack, little-endian, as get_arrayindexandlength  *)
(* and get_linkidandlinkedbehavior use them.                               *)

\* mutant: a field packed without the range check
UShortOK_unchecked(n) == TRUE

\* "H": an unsigned short; struct.error outside 0..65535
UShortOK(n) == 0 <= n /\ n <= 65535

\* "b": a signed char; struct.error outside -128..127
SByteOK(n) == -128 <= n /\ n <= 127

\* the two bytes of an unsigned short, low byte first
pack_H(n) == <<n % 256, n \div 256>>

\* mutant: the byte of a signed char as sign and magnitude
pack_b_sign_magnitude(n) == <<IF n < 0 THEN 128 + ((-n) % 128) ELSE n>>

\* the byte of a signed char in two's complement
pack_b(n) == <<n % 256>>

\* "<i": four bytes read as a signed 32-bit integer
unpack_i(bytes) ==
    bytes[1] + bytes[2] * 256 + bytes[3] * 65536
    + (IF bytes[4] >= 128 THEN bytes[4] - 256 ELSE bytes[4]) * 16777216

get_arrayindexandlength_raises(idx, length) ==
    length # 0 /\ ~(UShortOK(length) /\ UShortOK(idx))

\* mutant: the two fields packed in the order of the parameters
get_arrayindexandlength_idx_first(idx, length) ==
    IF length = 0 THEN 0
    ELSE unpack_i(pack_H(idx) \o pack_H(length))

get_arrayindexandlength(idx, length) ==
    IF length = 0 THEN 0
    ELSE unpack_i(pack_H(length) \o pack_H(idx))

get_linkidandlinkedbehavior_raises(link_id, behavior_idx) ==
    ~(UShortOK(behavior_idx) /\ SByteOK(link_id))

\* mutant: the format "<Hbx", the pad byte after the link id
get_linkidandlinkedbehavior_pad_last(link_id, behavior_idx) ==
    unpack_i(pack_H(behavior_idx) \o pack_b(link_id) \o <<0>>)

get_linkidandlinkedbehavior(link_id, behavior_idx) ==
    unpack_i(pack_H(behavior_idx) \o <<0>> \o pack_b(link_id))

----------------------------------------------------------------------------
(* The records of the entity classes. *)

VariableLinkData(variable_indexes, property_name, link_type) ==
    [variable_indexes |-> variable_indexes, property_name |-> property_name,
     link_type |-> link_type, connection_index |-> 0]

BehaviorLink(behavior, link_id) ==
    [behavior |-> behavior, link_id |-> link_id, delay |-> 0]

NewBpdVariable(idx) ==
    [var_type |-> "BVAR_None", name |-> "", idx |-> idx, needs_command |-> FALSE]

----------------------------------------------------------------------------
(* Behavior.__eq__ and __hash__, as @dataclass(unsafe_hash=True) generates *)
(* them.  hash=False on the two list fields leaves them out of __hash__    *)
(* only: __eq__ compares the tuples (behavior, linked_variables,           *)
(* output_links), left to right, stopping at the first difference.  Every  *)
(* comparison of two items made by a list, a tuple or a set takes the      *)
(* identity shortcut first.  Comparing output_links compares the target    *)
(* Behaviors, so __eq__ recurses; a pair met again while it is still being *)
(* compared never returns, and Python ends it with RecursionError.         *)
(* The result is "T", "F" or "E" (raised).                                 *)

behavior_hash(heap, a) == heap[a].behavior

RECURSIVE behavior_eq_in(_, _, _, _)
RECURSIVE links_eq(_, _, _, _, _)

behavior_eq_in(heap, a, b, busy) ==
    IF a = b THEN "T"
    ELSE IF <<a, b>> \in busy THEN "E"
    ELSE IF heap[a].behavior # heap[b].behavior THEN "F"
    ELSE IF heap[a].linked_variables # heap[b].linked_variables THEN "F"
    ELSE IF Len(heap[a].output_links) # Len(heap[b].output_links) THEN "F"
    ELSE links_eq(heap, heap[a].output_links, heap[b].output_links, 1,
                  busy \cup {<<a, b>>})

\* list.__eq__ over two equally long lists of BehaviorLink, from position i;
\* BehaviorLink.__eq__ compares (behavior, link_id, delay)
links_eq(heap, la, lb, i, busy) ==
    IF i > Len(la) THEN "T"
    ELSE LET r == behavior_eq_in(heap, la[i].behavior, lb[i].behavior, busy)
         IN  IF r # "T" THEN r
             ELSE IF la[i].link_id # lb[i].link_id \/ la[i].delay # lb[i].delay
                  THEN "F"
             ELSE links_eq(heap, la, lb, i + 1, busy)

behavior_eq(heap, a, b) == behavior_eq_in(heap, a, b, {})

\* `x in lst` for a list of Behaviors: the items are compared in order
RECURSIVE list_contains(_, _, _, _)
list_contains(heap, lst, x, i) ==
    IF i > Len(lst) THEN "F"
    ELSE LET r == behavior_eq(heap, lst[i], x)
         IN  IF r = "F" THEN list_contains(heap, lst, x, i + 1) ELSE r

\* mutant: the index of the last item, whatever x is
list_index_last(heap, lst, x) == Len(lst) - 1

\* lst.index(x), 0-based, for an x the list holds
list_index(heap, lst, x) ==
    (CHOOSE i \in 1..Len(lst) :
        /\ behavior_eq(heap, lst[i], x) = "T"
        /\ \A j \in 1..(i - 1) : behavior_eq(heap, lst[j], x) # "T") - 1

----------------------------------------------------------------------------
(* get_var_link_commands *)

VariableLinkCommand(var_link, packed) ==
    [PropertyName |-> var_link.property_name,
     VariableLinkType |-> var_link.link_type,
     ConnectionIndex |-> var_link.connection_index,
     ArrayIndexAndLength |-> packed]

\* the idx packed for one link: the pool length before the append for a
\* multi-index link, the index itself for a single one, else 0
var_link_idx(variable_indexes, pool) ==
    IF Len(variable_indexes) > 1 THEN Len(pool)
    ELSE IF Len(variable_indexes) = 1 THEN variable_indexes[1]
    ELSE 0

\* mutant: a single-index link appended to the pool as well
var_link_extend_single(variable_indexes, pool) ==
    IF Len(variable_indexes) >= 1 THEN pool \o variable_indexes ELSE pool

\* the pool after one link
var_link_extend(variable_indexes, pool) ==
    IF Len(variable_indexes) > 1 THEN pool \o variable_indexes ELSE pool

RECURSIVE var_link_loop(_, _, _, _)
var_link_loop(links, i, commands, pool) ==
    IF i > Len(links)
    THEN [commands |-> commands, variable_links |-> pool, raised |-> "None"]
    ELSE LET indexes == links[i].variable_indexes
             length == Len(indexes)
             idx == var_link_idx(indexes, pool)
             pool2 == var_link_extend(indexes, pool)
         IN  IF get_arrayindexandlength_raises(idx, length)
             THEN [commands |-> commands, variable_links |-> pool2,
                   raised |-> "struct.error"]
             ELSE var_link_loop(links, i + 1,
                      Append(commands,
                             VariableLinkCommand(links[i],
                                 get_arrayindexandlength(idx, length))),
                      pool2)

get_var_link_commands(links, pool) == var_link_loop(links, 1, <<>>, pool)

----------------------------------------------------------------------------
(* get_behavior_link_commands *)

BehaviorLinkCommand(link, idx) ==
    [LinkIdAndLinkedBehavior |-> get_linkidandlinkedbehavior(link.link_id, idx),
     ActivateDelay |-> link.delay]

\* mutant: the target appended without the membership test
learn_behavior_always(known, target, present) == Append(known, target)

\* known_behaviors after one link whose target is, or is not, in it
learn_behavior(known, target, present) ==
    IF present = "F" THEN Append(known, target) ELSE known

RECURSIVE behavior_link_loop(_, _, _, _, _)
behavior_link_loop(heap, links, i, commands, known) ==
    IF i > Len(links)
    THEN [commands |-> commands, known_behaviors |-> known, raised |-> "None"]
    ELSE LET present == list_contains(heap, known, links[i].behavior, 1)
             known2 == learn_behavior(known, links[i].behavior, present)
         IN  IF present = "E"
             THEN [commands |-> commands, known_behaviors |-> known,
                   raised |-> "RecursionError"]
             ELSE LET idx == list_index(heap, known2, links[i].behavior)
                  IN  IF get_linkidandlinkedbehavior_raises(links[i].link_id, idx)
                      THEN [commands |-> commands, known_behaviors |-> known2,
                            raised |-> "struct.error"]
                      ELSE behavior_link_loop(heap, links, i + 1,
                               Append(commands, BehaviorLinkCommand(links[i], idx)),
                               known2)

get_behavior_link_commands(heap, links, known) ==
    behavior_link_loop(heap, links, 1, <<>>, known)

----------------------------------------------------------------------------
(* The set comprehension of generate_bpd:                                   *)
(*   {link.behavior for link in links if link.behavior not in known}        *)
(* A set keeps the first of several equal members; a new member is         *)
(* compared (identity, then __eq__) with the members of the same hash.     *)
(* fresh is the members in the order they were inserted.                   *)

RECURSIVE set_has(_, _, _, _)
set_has(heap, fresh, x, i) ==
    IF i > Len(fresh) THEN "F"
    ELSE IF behavior_hash(heap, fresh[i]) # behavior_hash(heap, x)
         THEN set_has(heap, fresh, x, i + 1)
    ELSE LET r == behavior_eq(heap, fresh[i], x)
         IN  IF r = "F" THEN set_has(heap, fresh, x, i + 1) ELSE r

RECURSIVE new_behaviors_loop(_, _, _, _, _)
new_behaviors_loop(heap, links, i, fresh, known) ==
    IF i > Len(links) THEN [fresh |-> fresh, raised |-> "None"]
    ELSE LET present == list_contains(heap, known, links[i].behavior, 1)
             member == IF present = "F"
                       THEN set_has(heap, fresh, links[i].behavior, 1)
                       ELSE "T"
         IN  IF present = "E" \/ member = "E"
             THEN [fresh |-> fresh, raised |-> "RecursionError"]
             ELSE new_behaviors_loop(heap, links, i + 1,
                      IF member = "F" THEN Append(fresh, links[i].behavior)
                      ELSE fresh,
                      known)

\* mutant: the comprehension without its `not in known_behaviors` filter
new_behaviors_unfiltered(heap, links, known) ==
    new_behaviors_loop(heap, links, 1, <<>>, <<>>)

new_behaviors(heap, links, known) == new_behaviors_loop(heap, links, 1, <<>>, known)

\* list(set): the orders this process may iterate the set in.  The order
\* follows the members' hashes (str hashes are seeded per process) and is
\* the same whenever the same set is built again in the same process.
set_orders(fresh, order) ==
    IF Len(fresh) < 2 THEN {fresh}
    ELSE IF fresh \in DOMAIN order THEN {order[fresh]}
    ELSE Perms(fresh)

remember_order(fresh, listed, order) ==
    IF Len(fresh) < 2 \/ fresh \in DOMAIN order THEN order
    ELSE (fresh :> listed) @@ order

\* mutant: the new Behaviors put below the pending ones
push_new_bottom(stack, listed) == Reverse(listed) \o stack

\* behavior_stack.extend(reversed(list(set)))
push_new(stack, listed) == stack \o Reverse(listed)

----------------------------------------------------------------------------
(* The script before generate_bpd: example.py declares two variables, the  *)
(* events OnEquip and OnUnequip and three Behaviors, then adds output      *)
(* links.  The model starts from those declarations, with the variable     *)
(* links of example.py or a second choice that has empty and multi-index   *)
(* links, and with the third Behavior labelled as in example.py or with    *)
(* the label of the second; the output links are then added one at a time. *)

EventData(event_name, output_variables) ==
    [event_name |-> event_name, enabled |-> TRUE, replicate |-> FALSE,
     max_trigger_count |-> 0, retrigger_delay |-> 0, filter_object |-> "None",
     output_variables |-> output_variables, output_links |-> <<>>]

Behavior(behavior, linked_variables) ==
    [behavior |-> behavior, linked_variables |-> linked_variables,
     output_links |-> <<>>,
     _variables_ArrayIndexAndLength |-> 0, _output_ArrayIndexAndLength |-> 0]

ExampleEvents ==
    << EventData("OnEquip",
           <<VariableLinkData(<<0>>, "Instigator", "BVARLINK_Output")>>),
       EventData("OnUnequip",
           <<VariableLinkData(<<1>>, "Instigator", "BVARLINK_Output")>>) >>

ExampleBehaviors(third) ==
    << Behavior("Behavior_ActivateSkill_0",
           <<VariableLinkData(<<0>>, "Context", "BVARLINK_Context"),
             VariableLinkData(<<0>>, "AdditionalTargetContext", "BVARLINK_Input")>>),
       Behavior("Behavior_DeactivateSkill_0",
           <<VariableLinkData(<<1>>, "Context", "BVARLINK_Context")>>),
       Behavior(third,
           <<VariableLinkData(<<1>>, "Context", "BVARLINK_Context")>>) >>

VariedEvents ==
    << EventData("OnEquip", <<>>),
       EventData("OnUnequip",
           <<VariableLinkData(<<0, 1>>, "Instigator", "BVARLINK_Output")>>) >>

VariedBehaviors(third) ==
    << Behavior("Behavior_ActivateSkill_0",
           <<VariableLinkData(<<>>, "Context", "BVARLINK_Context"),
             VariableLinkData(<<1>>, "Skill", "BVARLINK_Input"),
             VariableLinkData(<<1, 0, 1>>, "Targets", "BVARLINK_Input")>>),
       Behavior("Behavior_DeactivateSkill_0",
           <<VariableLinkData(<<1, 0>>, "Context", "BVARLINK_Context")>>),
       Behavior(third, <<>>) >>

ThirdLabels == {"Behavior_DeactivateSkill_1", "Behavior_DeactivateSkill_0"}

\* what generate_bpd writes when nothing has been generated
NoFile ==
    [EventData2 |-> <<>>, BehaviorData2 |-> <<>>,
     ConsolidatedOutputLinkData |-> <<>>, ConsolidatedVariableLinkData |-> <<>>,
     ConsolidatedLinkedVariables |-> <<>>, VariableData |-> <<>>]

NoCall == [op |-> "none", idx |-> 0, all_before |-> <<>>, self |-> 0, arg |-> <<>>]

InitLocals ==
    /\ event = 0
    /\ event_commands = <<>>
    /\ behavior_commands = <<>>
    /\ behavior_link_commands = <<>>
    /\ variable_link_commands = <<>>
    /\ variable_links = <<>>
    /\ behavior_stack = <<>>
    /\ known_behaviors = <<>>

InitHistory ==
    /\ written = NoFile
    /\ passes = 0
    /\ first_written = NoFile
    /\ popped = <<>>
    /\ fresh_log = <<>>
    /\ span_log = <<>>
    /\ stamped = [b \in 1..Len(_ALL_BEHAVIORS) |-> <<0, 0>>]
    /\ late_links = 0

Init ==
    /\ _ALL_VARIABLES = [i \in 1..NumVariables |-> i]
    /\ var_heap = [i \in 1..NumVariables |-> NewBpdVariable(i - 1)]
    /\ var_links = <<>>
    /\ call = NoCall
    /\ returned = <<>>
    /\ \E third \in ThirdLabels :
          \/ /\ _ALL_EVENTS = ExampleEvents
             /\ _ALL_BEHAVIORS = ExampleBehaviors(third)
          \/ /\ _ALL_EVENTS = VariedEvents
             /\ _ALL_BEHAVIORS = VariedBehaviors(third)
    /\ pc = "script"
    /\ exception = "None"
    /\ set_order = <<>>
    /\ InitLocals
    /\ InitHistory

TotalLinks ==
    SumLen([i \in 1..Len(_ALL_EVENTS) |-> _ALL_EVENTS[i].output_links])
    + SumLen([i \in 1..Len(_ALL_BEHAVIORS) |-> _ALL_BEHAVIORS[i].output_links])

\* OnEquip.add_output_link(BehaviorLink(b)): link_id defaults to 0
EventData_add_output_link(e, b) ==
    /\ pc = "script"
    /\ TotalLinks < MaxLinks
    /\ _ALL_EVENTS' = [_ALL_EVENTS EXCEPT
                          ![e].output_links = Append(@, BehaviorLink(b, 0))]
    /\ UNCHANGED <<registry_vars, _ALL_BEHAVIORS, local_vars, history_vars, pc,
                   exception, set_order>>

\* a.add_output_link(BehaviorLink(b, -1)), as example.py links its Behaviors
Behavior_add_output_link(a, b) ==
    /\ pc = "script"
    /\ TotalLinks < MaxLinks
    /\ _ALL_BEHAVIORS' = [_ALL_BEHAVIORS EXCEPT
                             ![a].output_links = Append(@, BehaviorLink(b, -1))]
    /\ UNCHANGED <<registry_vars, _ALL_EVENTS, local_vars, history_vars, pc,
                   exception, set_order>>

----------------------------------------------------------------------------
(* generate_bpd.  One step sets up the locals, one step runs the body of   *)
(* the for loop up to the while loop for one event, one step runs one      *)
(* iteration of the while loop, and the last step renders BehaviorData2    *)
(* and writes the file.  An exception leaves generate_bpd (pc = "raised"): *)
(* the script does not catch it.                                           *)

\* mutant: the pool started empty
initial_variable_links_empty(all_variables) == <<>>

\* variable_links = [x for x in range(len(_ALL_VARIABLES))]
initial_variable_links(all_variables) == [i \in 1..Len(all_variables) |-> i - 1]

\* mutant: known_behaviors kept from the previous pass
leaked_known_behaviors(known) == known

\* known_behaviors: List[Behavior] = []
initial_known_behaviors(known) == <<>>

generate_bpd_begin ==
    /\ pc \in {"script", "done", "edited"}
    /\ passes < MaxPasses
    /\ pc' = "for"
    /\ event' = 1
    /\ event_commands' = <<>>
    /\ behavior_commands' = <<>>
    /\ behavior_link_commands' = <<>>
    /\ variable_link_commands' = <<>>
    /\ variable_links' = initial_variable_links(_ALL_VARIABLES)
    /\ behavior_stack' = <<>>
    /\ known_behaviors' = initial_known_behaviors(known_behaviors)
    /\ popped' = <<>>
    /\ fresh_log' = <<>>
    /\ span_log' = <<>>
    /\ UNCHANGED <<registry_vars, graph_vars, written, passes, first_written,
                   stamped, late_links, exception, set_order>>

EventCommand(e, output_vars, output_links) ==
    [EventName |-> e.event_name, bEnabled |-> e.enabled,
     bReplicate |-> e.replicate, MaxTriggerCount |-> e.max_trigger_count,
     ReTriggerDelay |-> e.retrigger_delay, FilterObject |-> e.filter_object,
     OutputVariables |-> output_vars, OutputLinks |-> output_links]

\* one entry of span_log
SpanEntry(kind, id, variables_before, links_before, pending) ==
    [kind |-> kind, id |-> id, variables_before |-> variables_before,
     links_before |-> links_before, pending |-> pending]

\* where control is after the while loop's test
after_while(stack) == IF stack = <<>> THEN "for" ELSE "while"

\* the first exception of several steps run in order
first_raised(seq) ==
    IF \A i \in 1..Len(seq) : seq[i] = "None" THEN "None"
    ELSE seq[CHOOSE i \in 1..Len(seq) :
                 seq[i] # "None" /\ \A j \in 1..(i - 1) : seq[j] = "None"]

struct_error(raises) == IF raises THEN "struct.error" ELSE "None"

generate_bpd_event ==
    /\ pc = "for"
    /\ event <= Len(_ALL_EVENTS)
    /\ LET e == _ALL_EVENTS[event]
           output_vars == get_arrayindexandlength(
                              Len(variable_link_commands), Len(e.output_variables))
           output_links == get_arrayindexandlength(
                               Len(behavior_link_commands), Len(e.output_links))
           vl == get_var_link_commands(e.output_variables, variable_links)
           nb == new_behaviors(_ALL_BEHAVIORS, e.output_links, known_behaviors)
           bl == get_behavior_link_commands(_ALL_BEHAVIORS, e.output_links,
                                            known_behaviors)
           raised == first_raised(<<
               struct_error(get_arrayindexandlength_raises(
                   Len(variable_link_commands), Len(e.output_variables))),
               struct_error(get_arrayindexandlength_raises(
                   Len(behavior_link_commands), Len(e.output_links))),
               vl.raised, nb.raised, bl.raised >>)
       IN  IF raised # "None"
           THEN /\ pc' = "raised"
                /\ exception' = raised
                /\ UNCHANGED <<registry_vars, graph_vars, local_vars,
                               history_vars, set_order>>
           ELSE \E listed \in set_orders(nb.fresh, set_order) :
                /\ set_order' = remember_order(nb.fresh, listed, set_order)
                /\ variable_link_commands' = variable_link_commands \o vl.commands
                /\ variable_links' = vl.variable_links
                /\ behavior_stack' = push_new(behavior_stack, listed)
                /\ behavior_link_commands' = behavior_link_commands \o bl.commands
                /\ known_behaviors' = bl.known_behaviors
                /\ event_commands' =
                       Append(event_commands, EventCommand(e, output_vars, output_links))
                /\ fresh_log' = Append(fresh_log, nb.fresh)
                /\ span_log' = Append(span_log,
                       SpanEntry("event", event, Len(variable_link_commands),
                                 Len(behavior_link_commands), behavior_stack))
                /\ pc' = after_while(behavior_stack')
                /\ event' = IF behavior_stack' = <<>> THEN event + 1 ELSE event
                /\ UNCHANGED <<registry_vars, graph_vars, behavior_commands,
                               written, passes, first_written, popped, stamped,
                               late_links, exception>>

\* the passes in which the two scratch fields of a drained Behavior were
\* last assigned, after an iteration of pass number `pass` (failed_at as below)
drain_stamp(stamp, pass, failed_at) ==
    IF failed_at = 1 THEN stamp
    ELSE IF failed_at \in {2, 3} THEN <<pass, stamp[2]>>
    ELSE <<pass, pass>>

\* mutant of drain_scratch: each span assigned to the other field
drain_scratch_swapped(b, variables_span, output_span, failed_at) ==
    [b EXCEPT !._variables_ArrayIndexAndLength = output_span,
              !._output_ArrayIndexAndLength = variables_span]

\* mutant of drain_scratch: a field that holds a span already is kept
drain_scratch_once(b, variables_span, output_span, failed_at) ==
    [b EXCEPT !._variables_ArrayIndexAndLength =
                  IF @ # 0 THEN @ ELSE variables_span,
              !._output_ArrayIndexAndLength =
                  IF @ # 0 THEN @ ELSE output_span]

\* the instance attributes a drained Behavior has received when the
\* iteration ends, normally or by an exception at the given step
\* (1: packing the variable span, 2: the variable links, 3: packing the
\*  output span, 4: the set or the behavior links, 0: no exception)
drain_scratch(b, variables_span, output_span, failed_at) ==
    IF failed_at = 1 THEN b
    ELSE IF failed_at \in {2, 3}
         THEN [b EXCEPT !._variables_ArrayIndexAndLength = variables_span]
    ELSE [b EXCEPT !._variables_ArrayIndexAndLength = variables_span,
                   !._output_ArrayIndexAndLength = output_span]

generate_bpd_drain ==
    /\ pc = "while"
    /\ behavior_stack # <<>>
    /\ LET behavior == behavior_stack[Len(behavior_stack)]
           stack == SubSeq(behavior_stack, 1, Len(behavior_stack) - 1)
           b == _ALL_BEHAVIORS[behavior]
           variables_span == get_arrayindexandlength(
                                 Len(variable_link_commands), Len(b.linked_variables))
           vl == get_var_link_commands(b.linked_variables, variable_links)
           links_before == Len(behavior_link_commands)
           output_span == get_arrayindexandlength(links_before, Len(b.output_links))
           nb == new_behaviors(_ALL_BEHAVIORS, b.output_links, known_behaviors)
           bl == get_behavior_link_commands(_ALL_BEHAVIORS, b.output_links,
                                            known_behaviors)
           steps == <<
               struct_error(get_arrayindexandlength_raises(
                   Len(variable_link_commands), Len(b.linked_variables))),
               vl.raised,
               struct_error(get_arrayindexandlength_raises(
                   links_before, Len(b.output_links))),
               first_raised(<<nb.raised, bl.raised>>) >>
           raised == first_raised(steps)
           failed_at == IF raised = "None" THEN 0
                        ELSE CHOOSE i \in 1..4 :
                                 steps[i] # "None" /\ \A j \in 1..(i - 1) : steps[j] = "None"
       IN  /\ _ALL_BEHAVIORS' =
                  [_ALL_BEHAVIORS EXCEPT
                      ![behavior] = drain_scratch(b, variables_span, output_span,
                                                  failed_at)]
           /\ stamped' = [stamped EXCEPT
                             ![behavior] = drain_stamp(@, passes + 1, failed_at)]
           /\ IF raised # "None"
              THEN /\ pc' = "raised"
                   /\ exception' = raised
                   /\ UNCHANGED <<registry_vars, _ALL_EVENTS, local_vars, written,
                                  passes, first_written, popped, fresh_log,
                                  span_log, late_links, set_order>>
              ELSE \E listed \in set_orders(nb.fresh, set_order) :
                   /\ set_order' = remember_order(nb.fresh, listed, set_order)
                   /\ variable_link_commands' = variable_link_commands \o vl.commands
                   /\ variable_links' = vl.variable_links
                   /\ behavior_stack' = push_new(stack, listed)
                   /\ behavior_link_commands' = behavior_link_commands \o bl.commands
                   /\ known_behaviors' = bl.known_behaviors
                   /\ popped' = Append(popped, behavior)
                   /\ fresh_log' = Append(fresh_log, nb.fresh)
                   /\ span_log' = Append(span_log,
                          SpanEntry("behavior", behavior, Len(variable_link_commands),
                                    links_before, stack))
                   /\ pc' = after_while(behavior_stack')
                   /\ event' = IF behavior_stack' = <<>> THEN event + 1 ELSE event
                   /\ UNCHANGED <<registry_vars, _ALL_EVENTS, event_commands,
                                  behavior_commands, written, passes,
                                  first_written, late_links, exception>>

BehaviorCommand(b) ==
    [Behavior |-> b.behavior,
     LinkedVariables |-> b._variables_ArrayIndexAndLength,
     OutputLinks |-> b._output_ArrayIndexAndLength]

\* for behavior in known_behaviors: behavior_commands.append(...)
render_behaviors(heap, known) == [i \in 1..Len(known) |-> BehaviorCommand(heap[known[i]])]

\* the trailing `set ... VariableData[idx]` lines, one per variable that
\* needs a command
variable_lines(all_variables, heap) ==
    [i \in 1..Len(all_variables) |->
        IF heap[all_variables[i]].needs_command
        THEN <<heap[all_variables[i]].idx, heap[all_variables[i]].name,
               heap[all_variables[i]].var_type>>
        ELSE <<>>]

generate_bpd_write ==
    /\ pc = "for"
    /\ event > Len(_ALL_EVENTS)
    /\ LET rendered == render_behaviors(_ALL_BEHAVIORS, known_behaviors)
           file == [EventData2 |-> event_commands,
                    BehaviorData2 |-> rendered,
                    ConsolidatedOutputLinkData |-> behavior_link_commands,
                    ConsolidatedVariableLinkData |-> variable_link_commands,
                    ConsolidatedLinkedVariables |-> variable_links,
                    VariableData |-> variable_lines(_ALL_VARIABLES, var_heap)]
       IN  /\ behavior_commands' = rendered
           /\ written' = file
           /\ first_written' = IF passes = 0 THEN file ELSE first_written
    /\ passes' = passes + 1
    /\ pc' = "done"
    /\ UNCHANGED <<registry_vars, graph_vars, event, event_commands,
                   behavior_link_commands, variable_link_commands, variable_links,
                   behavior_stack, known_behaviors, popped, fresh_log, span_log,
                   stamped, late_links, exception, set_order>>

Next ==
    \/ \E e \in 1..Len(_ALL_EVENTS), b \in 1..Len(_ALL_BEHAVIORS) :
           EventData_add_output_link(e, b)
    \/ \E a, b \in 1..Len(_ALL_BEHAVIORS) : Behavior_add_output_link(a, b)
    \/ generate_bpd_begin
    \/ generate_bpd_event
    \/ generate_bpd_drain
    \/ generate_bpd_write

Spec == Init /\ [][Next]_vars

----------------------------------------------------------------------------
(* Properties of generate_bpd, checked under Spec. *)

\* the Behaviors one link away from a set of Behaviors
Targets(S) ==
    {_ALL_BEHAVIORS[a].output_links[k].behavior :
        <<a, k>> \in {p \in S \X (1..MaxLinks + 1) :
                         p[2] <= Len(_ALL_BEHAVIORS[p[1]].output_links)}}

RECURSIVE Closure(_)
Closure(S) == IF Targets(S) \subseteq S THEN S ELSE Closure(S \cup Targets(S))

\* the Behaviors reachable from some event of _ALL_EVENTS through output_links
Reachable ==
    Closure({_ALL_EVENTS[e].output_links[k].behavior :
                <<e, k>> \in {p \in (1..Len(_ALL_EVENTS)) \X (1..MaxLinks + 1) :
                                 p[2] <= Len(_ALL_EVENTS[p[1]].output_links)}})

\* the slots of known_behaviors that hold x, as `in` and index() see it
SlotsOf(x) ==
    {i \in 1..Len(known_behaviors) :
        behavior_eq(_ALL_BEHAVIORS, known_behaviors[i], x) = "T"}

\* the two 16-bit fields of a non-negative ArrayIndexAndLength
SpanOffset(packed) == packed \div 65536
SpanLength(packed) == packed % 65536

\* the low 16 bits of a LinkIdAndLinkedBehavior
LinkedBehavior(packed) == packed % 65536

\* the top byte of a LinkIdAndLinkedBehavior, as a signed number
LinkId(packed) == packed \div 16777216

\* the link records of event e, located by the span of its event record
EventLinkRecord(e, k) ==
    behavior_link_commands[SpanOffset(event_commands[e].OutputLinks) + k]

\* C1: when generate_bpd has finished, known_behaviors holds exactly the
\* Behaviors reachable from the events, each in exactly one slot, and every
\* link record of every event encodes the index of its target's slot (so
\* two events linking to one target encode the same index).
C1_KnownIsReachableOnce ==
    pc = "done" =>
        /\ \A r \in Reachable : Cardinality(SlotsOf(r)) = 1
        /\ \A i \in 1..Len(known_behaviors) :
              /\ known_behaviors[i] \in Reachable
              /\ SlotsOf(known_behaviors[i]) = {i}
        /\ \A e \in 1..Len(_ALL_EVENTS) :
              \A k \in 1..Len(_ALL_EVENTS[e].output_links) :
                  {LinkedBehavior(EventLinkRecord(e, k).LinkIdAndLinkedBehavior) + 1}
                      = SlotsOf(_ALL_EVENTS[e].output_links[k].behavior)

\* both events link to the same Behavior, which links on to another one
C1_Witness ==
    /\ pc = "done"
    /\ Len(known_behaviors) = 2
    /\ \E b \in 1..Len(_ALL_BEHAVIORS) :
          /\ _ALL_EVENTS[1].output_links = <<BehaviorLink(b, 0)>>
          /\ _ALL_EVENTS[2].output_links = <<BehaviorLink(b, 0)>>
          /\ known_behaviors[1] = b

\* position of x in a sequence without repetition that holds it
PosIn(s, x) == CHOOSE i \in 1..Len(s) : s[i] = x

\* C2: the new Behaviors of one link list are popped in the order in which
\* the list first mentions them.
C2_PoppedInEncounterOrder ==
    \A n \in 1..Len(fresh_log) :
        \A i, j \in 1..Len(fresh_log[n]) :
            (i < j /\ fresh_log[n][j] \in Range(popped)) =>
                /\ fresh_log[n][i] \in Range(popped)
                /\ PosIn(popped, fresh_log[n][i]) < PosIn(popped, fresh_log[n][j])

\* C3: a pass never ends in an exception, also on a graph with cycles; the
\* stack is empty whenever the for loop is reached and when the pass is
\* done, and no Behavior is in known_behaviors twice.
C3_PassCompletes ==
    /\ pc # "raised"
    /\ pc \in {"for", "done"} => behavior_stack = <<>>
    /\ \A i, j \in 1..Len(known_behaviors) :
          i # j => known_behaviors[i] # known_behaviors[j]

\* the end-to-end scenario: OnEquip -> A, OnUnequip -> B, B -> C with
\* link_id -1
ExampleLinked ==
    /\ _ALL_EVENTS[1].output_links = <<BehaviorLink(1, 0)>>
    /\ _ALL_EVENTS[2].output_links = <<BehaviorLink(2, 0)>>
    /\ _ALL_BEHAVIORS[1].output_links = <<>>
    /\ _ALL_BEHAVIORS[2].output_links = <<BehaviorLink(3, -1)>>
    /\ _ALL_BEHAVIORS[3].output_links = <<>>

\* C4: in the scenario the Behaviors are listed in the order [A, B, C], the
\* output span of C is 0, and the one output-link record of B is
\* -16777214: the top byte -1, the low 16 bits 2.
C4_ExampleOutput ==
    (pc = "done" /\ ExampleLinked) =>
        /\ known_behaviors = <<1, 2, 3>>
        /\ Len(written.BehaviorData2) = 3
        /\ \A i \in 1..3 :
              written.BehaviorData2[i].Behavior = _ALL_BEHAVIORS[i].behavior
        /\ written.BehaviorData2[3].OutputLinks = 0
        /\ SpanLength(written.BehaviorData2[2].OutputLinks) = 1
        /\ written.ConsolidatedOutputLinkData[
               SpanOffset(written.BehaviorData2[2].OutputLinks) + 1]
             = [LinkIdAndLinkedBehavior |-> -16777214, ActivateDelay |-> 0]

C4_Witness ==
    /\ pc = "done"
    /\ ExampleLinked
    /\ _ALL_EVENTS[1].output_variables # <<>>
    /\ _ALL_BEHAVIORS[3].behavior = "Behavior_DeactivateSkill_1"

\* C5: every later pass over the unmodified registries writes what the
\* first pass wrote.
C5_SecondPassIdentical ==
    (pc = "done" /\ passes >= 2) => written = first_written

\* a second pass is done over a graph whose Behaviors have links and
\* variable links of their own
C5_Witness ==
    /\ pc = "done"
    /\ passes = 2
    /\ Len(written.BehaviorData2) >= 2
    /\ \E i \in 1..Len(written.BehaviorData2) :
          /\ written.BehaviorData2[i].OutputLinks # 0
          /\ written.BehaviorData2[i].LinkedVariables # 0

\* C6: Behaviors with the same label share one slot of known_behaviors,
\* whatever their link lists hold.
C6_SameLabelOneSlot ==
    pc = "done" =>
        \A i, j \in 1..Len(known_behaviors) :
            _ALL_BEHAVIORS[known_behaviors[i]].behavior
                = _ALL_BEHAVIORS[known_behaviors[j]].behavior => i = j

----------------------------------------------------------------------------
(* The variable registry and the VariableLinkData constructor, from an     *)
(* empty module.  call records the last call made: its name, its *)
(* idx argument, _ALL_VARIABLES as it was before the call, the object the  *)
(* call constructed and its list argument.                                 *)

\* the explicit indexes and edit indexes tried
Indexes == 0..MaxIdx

\* the variable_indexes lists tried
IndexLists == {<<>>, <<0>>, <<1>>, <<2>>, <<-1>>, <<0, 1>>, <<1, 0, 1>>, <<0, -1>>}

\* BpdVariable(): __post_init__ with idx == -1.  The new object takes the
\* next reference, sets its idx to the length of the list and appends itself.
BpdVariable_append(all, heap) ==
    [all |-> Append(all, Len(heap) + 1),
     heap |-> Append(heap, NewBpdVariable(Len(all)))]

RECURSIVE BpdVariable_repeat(_, _, _)
BpdVariable_repeat(all, heap, count) ==
    IF count = 0 THEN [all |-> all, heap |-> heap]
    ELSE LET one == BpdVariable_append(all, heap)
         IN  BpdVariable_repeat(one.all, one.heap, count - 1)

\* _ALL_VARIABLES.extend([BpdVariable() for _ in range(n)]): each
\* BpdVariable() of the comprehension has appended itself when the list of
\* them is handed to extend
extend_with_placeholders(all, heap, n) ==
    LET made == BpdVariable_repeat(all, heap, n)
    IN  [all |-> made.all \o [j \in 1..n |-> Len(heap) + j], heap |-> made.heap]

\* BpdVariable(idx=i), i >= 0: __post_init__ with an explicit idx
BpdVariable_at(all, heap, i) ==
    LET self == Len(heap) + 1
        heap1 == Append(heap, NewBpdVariable(i))
        grown == IF Len(all) < i + 1
                 THEN extend_with_placeholders(all, heap1, i + 1 - Len(all))
                 ELSE [all |-> all, heap |-> heap1]
    IN  [all |-> [grown.all EXCEPT ![i + 1] = self], heap |-> grown.heap]

InitVars ==
    /\ _ALL_VARIABLES = <<>>
    /\ var_heap = <<>>
    /\ var_links = <<>>
    /\ call = NoCall
    /\ returned = <<>>
    /\ _ALL_EVENTS = <<>>
    /\ _ALL_BEHAVIORS = <<>>
    /\ pc = "script"
    /\ exception = "None"
    /\ set_order = <<>>
    /\ InitLocals
    /\ InitHistory

registry_frame ==
    UNCHANGED <<returned, graph_vars, local_vars, history_vars, set_order>>

\* BpdVariable()
BpdVariable_default ==
    /\ pc = "script"
    /\ Len(var_heap) < MaxObjects
    /\ LET r == BpdVariable_append(_ALL_VARIABLES, var_heap)
       IN  /\ _ALL_VARIABLES' = r.all
           /\ var_heap' = r.heap
    /\ call' = [op |-> "BpdVariable()", idx |-> -1, all_before |-> _ALL_VARIABLES,
                self |-> Len(var_heap) + 1, arg |-> <<>>]
    /\ UNCHANGED <<var_links, pc, exception>>
    /\ registry_frame

\* BpdVariable(idx=i)
BpdVariable_explicit(i) ==
    /\ pc = "script"
    /\ LET r == BpdVariable_at(_ALL_VARIABLES, var_heap, i)
       IN  /\ Len(r.heap) <= MaxObjects
           /\ _ALL_VARIABLES' = r.all
           /\ var_heap' = r.heap
    /\ call' = [op |-> "BpdVariable(idx)", idx |-> i, all_before |-> _ALL_VARIABLES,
                self |-> Len(var_heap) + 1, arg |-> <<>>]
    /\ UNCHANGED <<var_links, pc, exception>>
    /\ registry_frame

\* generate_variables(count)
generate_variables(count) ==
    /\ pc = "script"
    /\ Len(var_heap) + count <= MaxObjects
    /\ LET r == BpdVariable_repeat(_ALL_VARIABLES, var_heap, count)
       IN  /\ _ALL_VARIABLES' = r.all
           /\ var_heap' = r.heap
    /\ call' = [op |-> "generate_variables", idx |-> count,
                all_before |-> _ALL_VARIABLES, self |-> 0, arg |-> <<>>]
    /\ UNCHANGED <<var_links, pc, exception>>
    /\ registry_frame

\* edit_variable(idx, var_type, name); _ALL_VARIABLES[idx] raises
\* IndexError past the end of the list
edit_variable(idx, var_type, name) ==
    /\ pc = "script"
    /\ call' = [op |-> "edit_variable", idx |-> idx, all_before |-> _ALL_VARIABLES,
                self |-> 0, arg |-> <<>>]
    /\ IF idx >= Len(_ALL_VARIABLES)
       THEN /\ pc' = "raised"
            /\ exception' = "IndexError"
            /\ UNCHANGED var_heap
       ELSE /\ var_heap' = [var_heap EXCEPT ![_ALL_VARIABLES[idx + 1]] =
                               [idx |-> idx, var_type |-> var_type, name |-> name,
                                needs_command |-> TRUE]]
            /\ UNCHANGED <<pc, exception>>
    /\ UNCHANGED <<_ALL_VARIABLES, var_links>>
    /\ registry_frame

\* VariableLinkData.__post_init__: the check made on each index
index_rejected(var_idx, all) == var_idx >= Len(all)

\* VariableLinkData(variable_indexes, ...) with a list argument
VariableLinkData_construct(variable_indexes) ==
    /\ pc = "script"
    /\ Len(var_links) < MaxVarLinks
    /\ call' = [op |-> "VariableLinkData", idx |-> 0, all_before |-> _ALL_VARIABLES,
                self |-> 0, arg |-> variable_indexes]
    /\ IF \E k \in 1..Len(variable_indexes) :
              index_rejected(variable_indexes[k], _ALL_VARIABLES)
       THEN /\ pc' = "raised"
            /\ exception' = "IndexError"
            /\ UNCHANGED var_links
       ELSE /\ var_links' = Append(var_links,
                                VariableLinkData(variable_indexes, "Context",
                                                 "BVARLINK_Context"))
            /\ UNCHANGED <<pc, exception>>
    /\ UNCHANGED <<_ALL_VARIABLES, var_heap>>
    /\ registry_frame

\* the links constructed so far rendered as generate_bpd renders the
\* output_variables of its first event: a fresh pool, then
\* variable_link_commands.extend(get_var_link_commands(links, variable_links))
render_var_links ==
    /\ pc = "script"
    /\ var_links # <<>>
    /\ call' = [op |-> "get_var_link_commands", idx |-> 0,
                all_before |-> _ALL_VARIABLES, self |-> 0, arg |-> <<>>]
    /\ LET r == get_var_link_commands(var_links,
                                      initial_variable_links(_ALL_VARIABLES))
       IN  IF r.raised # "None"
           THEN /\ pc' = "raised"
                /\ exception' = r.raised
                /\ UNCHANGED <<variable_link_commands, variable_links>>
           ELSE /\ pc' = "rendered"
                /\ variable_link_commands' = r.commands
                /\ variable_links' = r.variable_links
                /\ UNCHANGED exception
    /\ UNCHANGED <<_ALL_VARIABLES, var_heap, var_links, returned, graph_vars, event,
                   event_commands, behavior_commands, behavior_link_commands,
                   behavior_stack, known_behaviors, history_vars, set_order>>

NextVars ==
    \/ BpdVariable_default
    \/ \E i \in Indexes : BpdVariable_explicit(i)
    \/ \E count \in 1..2 : generate_variables(count)
    \/ \E idx \in Indexes : edit_variable(idx, "BVAR_Int", "Edited")

SpecVars == InitVars /\ [][NextVars]_vars

(* Variables declared one at a time, VariableLinkData objects constructed  *)
(* in between, and the links rendered: SpecLinks.                          *)
NextLinks ==
    \/ BpdVariable_default
    \/ \E variable_indexes \in IndexLists : VariableLinkData_construct(variable_indexes)
    \/ render_var_links

SpecLinks == InitVars /\ [][NextLinks]_vars

----------------------------------------------------------------------------
(* Properties of get_var_link_commands and of the VariableLinkData         *)
(* constructor, checked under SpecLinks.                                   *)

\* the indexes of the variables that exist
ExistingIndexes == 0..(Len(_ALL_VARIABLES) - 1)

\* the number of pool entries appended by the multi-index links among the
\* first n links
RECURSIVE AppendedBy(_, _)
AppendedBy(links, n) ==
    IF n = 0 THEN 0
    ELSE AppendedBy(links, n - 1)
         + (IF Len(links[n].variable_indexes) > 1
            THEN Len(links[n].variable_indexes) ELSE 0)

LinksRendered == call.op = "get_var_link_commands"

AllLinksValid ==
    \A j \in 1..Len(var_links) :
        Range(var_links[j].variable_indexes) \subseteq ExistingIndexes

\* C7: rendering links over existing variables raises nothing and gives one
\* record per link: a link without indexes gets 0, a link with one index
\* gets length 1 and that index as offset, a link with k > 1 indexes gets
\* length k and the pool length before its append as offset, and exactly
\* its k indexes are appended there, in order; no other link changes the
\* pool.
C7_VarLinkRendering ==
    (LinksRendered /\ AllLinksValid) =>
        /\ pc = "rendered"
        /\ Len(variable_link_commands) = Len(var_links)
        /\ Len(variable_links) =
               Len(_ALL_VARIABLES) + AppendedBy(var_links, Len(var_links))
        /\ SubSeq(variable_links, 1, Len(_ALL_VARIABLES)) =
               [i \in 1..Len(_ALL_VARIABLES) |-> i - 1]
        /\ \A j \in 1..Len(var_links) :
              LET indexes == var_links[j].variable_indexes
                  k == Len(indexes)
                  packed == variable_link_commands[j].ArrayIndexAndLength
                  before == Len(_ALL_VARIABLES) + AppendedBy(var_links, j - 1)
              IN  /\ k = 0 => packed = 0
                  /\ k = 1 => /\ SpanLength(packed) = 1
                              /\ SpanOffset(packed) = indexes[1]
                  /\ k > 1 => /\ SpanLength(packed) = k
                              /\ SpanOffset(packed) = before
                              /\ SubSeq(variable_links, before + 1, before + k)
                                     = indexes

\* an empty link, a single-index link and a three-index link were rendered
C7_Witness ==
    /\ pc = "rendered"
    /\ LinksRendered
    /\ AllLinksValid
    /\ \E i, j \in 1..Len(var_links) :
          /\ Len(var_links[i].variable_indexes) = 3
          /\ var_links[j].variable_indexes = <<1>>
    /\ Len(variable_links) = Len(_ALL_VARIABLES) + 3

\* C8: constructing a VariableLinkData with an index that is not the index
\* of an existing variable raises, so every link that was constructed holds
\* existing indexes only.
C8_MissingIndexRejected ==
    /\ (call.op = "VariableLinkData"
          /\ ~(Range(call.arg) \subseteq 0..(Len(call.all_before) - 1)))
       => exception = "IndexError"
    /\ AllLinksValid

----------------------------------------------------------------------------
(* Properties of the variable registry, checked under SpecVars. *)

\* C9: every slot p of _ALL_VARIABLES holds a variable whose idx is p, and
\* no variable is in two slots.
C9_IndexIsPosition ==
    \A p \in 1..Len(_ALL_VARIABLES) :
        /\ var_heap[_ALL_VARIABLES[p]].idx = p - 1
        /\ \A q \in 1..Len(_ALL_VARIABLES) :
              _ALL_VARIABLES[p] = _ALL_VARIABLES[q] => p = q

\* C10: BpdVariable(idx=i) on a list of length <= i leaves a list of length
\* i + 1 whose slot i holds the new variable; on a longer list it keeps the
\* length and changes slot i only.
C10_ExplicitIndexGrowsToIndex ==
    call.op = "BpdVariable(idx)" =>
        /\ _ALL_VARIABLES[call.idx + 1] = call.self
        /\ Len(call.all_before) <= call.idx =>
              Len(_ALL_VARIABLES) = call.idx + 1
        /\ Len(call.all_before) > call.idx =>
              /\ Len(_ALL_VARIABLES) = Len(call.all_before)
              /\ \A p \in 1..Len(_ALL_VARIABLES) :
                    p # call.idx + 1 => _ALL_VARIABLES[p] = call.all_before[p]

----------------------------------------------------------------------------
(* The two packing functions called on their own, from an empty module:    *)
(* SpecPack.  call.arg holds the arguments in the order of the parameters, *)
(* returned the value; a struct.error ends the script.                     *)

\* the values tried for a 16-bit field: both ends of the range and of each
\* byte, the sign bit of the packed word, and values outside the range
UShortInputs ==
    (-2..3) \cup (254..258) \cup (32766..32769) \cup (65533..65537)

\* the values tried for the link id: both ends of -128..127, around zero,
\* and values outside the range
SByteInputs == (-130..-126) \cup (-2..2) \cup (126..130)

PackCall(op, arg) ==
    [op |-> op, idx |-> 0, all_before |-> <<>>, self |-> 0, arg |-> arg]

pack_frame ==
    UNCHANGED <<_ALL_VARIABLES, var_heap, var_links, graph_vars, local_vars,
                history_vars, set_order>>

\* get_arrayindexandlength(idx, length)
Call_get_arrayindexandlength(idx, length) ==
    /\ pc = "script"
    /\ call' = PackCall("get_arrayindexandlength", <<idx, length>>)
    /\ IF get_arrayindexandlength_raises(idx, length)
       THEN /\ pc' = "raised"
            /\ exception' = "struct.error"
            /\ returned' = <<>>
       ELSE /\ returned' = <<get_arrayindexandlength(idx, length)>>
            /\ UNCHANGED <<pc, exception>>
    /\ pack_frame

\* get_linkidandlinkedbehavior(link_id, behavior_idx)
Call_get_linkidandlinkedbehavior(link_id, behavior_idx) ==
    /\ pc = "script"
    /\ call' = PackCall("get_linkidandlinkedbehavior", <<link_id, behavior_idx>>)
    /\ IF get_linkidandlinkedbehavior_raises(link_id, behavior_idx)
       THEN /\ pc' = "raised"
            /\ exception' = "struct.error"
            /\ returned' = <<>>
       ELSE /\ returned' = <<get_linkidandlinkedbehavior(link_id, behavior_idx)>>
            /\ UNCHANGED <<pc, exception>>
    /\ pack_frame

NextPack ==
    \/ \E idx, length \in UShortInputs : Call_get_arrayindexandlength(idx, length)
    \/ \E link_id \in SByteInputs, behavior_idx \in UShortInputs :
           Call_get_linkidandlinkedbehavior(link_id, behavior_idx)

SpecPack == InitVars /\ [][NextPack]_vars

----------------------------------------------------------------------------
(* Properties of the packing functions, checked under SpecPack. *)

UShort == 0..65535
SByte == -128..127

\* the four bytes of a signed 32-bit integer, low byte first ("<i")
pack_i(n) ==
    <<n % 256, (n \div 256) % 256, (n \div 65536) % 256, (n \div 16777216) % 256>>

\* the unsigned short of two bytes, low byte first ("<H")
unpack_H(bytes) == bytes[1] + bytes[2] * 256

\* the signed char of one byte ("b")
unpack_b(byte) == IF byte >= 128 THEN byte - 256 ELSE byte

\* the fields recovered from an ArrayIndexAndLength: <<idx, length>>
UnpackArrayIndexAndLength(n) ==
    <<unpack_H(SubSeq(pack_i(n), 3, 4)), unpack_H(SubSeq(pack_i(n), 1, 2))>>

\* the fields recovered from a LinkIdAndLinkedBehavior:
\* <<link_id, behavior_idx>>
UnpackLinkIdAndLinkedBehavior(n) ==
    <<unpack_b(pack_i(n)[4]), unpack_H(SubSeq(pack_i(n), 1, 2))>>

\* idx * 65536 + length as a signed 32-bit integer: 2^32 is subtracted when
\* idx >= 32768 (written so that no intermediate value leaves 32 bits)
Signed32(idx, length) ==
    IF idx >= 32768 THEN (idx - 65536) * 65536 + length
    ELSE idx * 65536 + length

ArrayIndexAndLengthCalled == call.op = "get_arrayindexandlength"
LinkIdAndLinkedBehaviorCalled == call.op = "get_linkidandlinkedbehavior"

\* C11: get_arrayindexandlength(idx, 0) returns 0 for every idx; for length
\* in 1..65535 and idx in 0..65535 it returns idx * 65536 + length read as a
\* signed 32-bit integer, which is not 0 and from which exactly (idx, length)
\* is recovered by unpacking.
C11_ArrayIndexAndLength ==
    ArrayIndexAndLengthCalled =>
        LET idx == call.arg[1]
            length == call.arg[2]
        IN  /\ length = 0 => (pc = "script" /\ returned = <<0>>)
            /\ (length \in 1..65535 /\ idx \in UShort) =>
                  /\ pc = "script"
                  /\ returned = <<Signed32(idx, length)>>
                  /\ returned[1] # 0
                  /\ UnpackArrayIndexAndLength(returned[1]) = <<idx, length>>

\* the largest fields: the sign bit of the packed word is set
C11_Witness ==
    /\ ArrayIndexAndLengthCalled
    /\ call.arg = <<65535, 65535>>
    /\ returned = <<-1>>

\* C12: for behavior_idx in 0..65535 and link_id in -128..127
\* get_linkidandlinkedbehavior returns behavior_idx + link_id * 2^24: the low
\* 16 bits are behavior_idx, bits 16..23 are zero, the top byte is link_id in
\* two's complement; unpacking gives back exactly (link_id, behavior_idx).
C12_LinkIdAndLinkedBehavior ==
    (LinkIdAndLinkedBehaviorCalled /\ call.arg[1] \in SByte /\ call.arg[2] \in UShort) =>
        LET link_id == call.arg[1]
            behavior_idx == call.arg[2]
        IN  /\ pc = "script"
            /\ returned = <<behavior_idx + link_id * 16777216>>
            /\ unpack_H(SubSeq(pack_i(returned[1]), 1, 2)) = behavior_idx
            /\ pack_i(returned[1])[3] = 0
            /\ unpack_b(pack_i(returned[1])[4]) = link_id
            /\ UnpackLinkIdAndLinkedBehavior(returned[1]) = <<link_id, behavior_idx>>

\* a negative link id with the largest behavior index
C12_Witness ==
    /\ LinkIdAndLinkedBehaviorCalled
    /\ call.arg = <<-128, 65535>>
    /\ returned = <<-2147418113>>

\* a field outside its range among the arguments of the last call
FieldOutOfRange ==
    \/ /\ ArrayIndexAndLengthCalled
       /\ (call.arg[1] \notin UShort \/ call.arg[2] \notin UShort)
    \/ /\ LinkIdAndLinkedBehaviorCalled
       /\ (call.arg[1] \notin SByte \/ call.arg[2] \notin UShort)

Rejected == pc = "raised" /\ exception = "struct.error" /\ returned = <<>>

\* C13 as stated: every call with a field outside its range ends in an
\* error and returns nothing.
C13_OutOfRangeRejected == FieldOutOfRange => Rejected

\* C13, amended: a call with a field outside its range ends in
\* struct.error and returns nothing, except get_arrayindexandlength with
\* length 0, which packs nothing and returns 0 whatever idx is.
C13_OutOfRangeRejectedUnlessEmpty ==
    /\ (FieldOutOfRange /\ ~(ArrayIndexAndLengthCalled /\ call.arg[2] = 0)) => Rejected
    /\ (ArrayIndexAndLengthCalled /\ call.arg[2] = 0) => returned = <<0>>
    /\ (call.op # "none" /\ ~FieldOutOfRange) => pc = "script"

\* a link id one past the range was rejected
C13_Witness ==
    /\ LinkIdAndLinkedBehaviorCalled
    /\ call.arg = <<128, 2>>
    /\ Rejected

----------------------------------------------------------------------------
(* example.py as it is: the script adds its output links and calls         *)
(* generate_bpd once: SpecOnce.                                            *)

\* the one generate_bpd call of the script
generate_bpd_once ==
    /\ passes = 0
    /\ generate_bpd_begin

NextOnce ==
    \/ \E e \in 1..Len(_ALL_EVENTS), b \in 1..Len(_ALL_BEHAVIORS) :
           EventData_add_output_link(e, b)
    \/ \E a, b \in 1..Len(_ALL_BEHAVIORS) : Behavior_add_output_link(a, b)
    \/ generate_bpd_once
    \/ generate_bpd_event
    \/ generate_bpd_drain
    \/ generate_bpd_write

SpecOnce == Init /\ [][NextOnce]_vars

----------------------------------------------------------------------------
(* Properties of the spans and of the traversal, checked under SpecOnce.   *)
(* span_log[n] and fresh_log[n] describe the n-th entity (event or         *)
(* Behavior) processed in the pass.                                        *)

InPass == pc \in {"for", "while", "done"}

\* the variable links, the output links and the two recorded spans of the
\* entity of a span_log entry
EntityVariables(s) ==
    IF s.kind = "event" THEN _ALL_EVENTS[s.id].output_variables
    ELSE _ALL_BEHAVIORS[s.id].linked_variables

EntityLinks(s) ==
    IF s.kind = "event" THEN _ALL_EVENTS[s.id].output_links
    ELSE _ALL_BEHAVIORS[s.id].output_links

EntityVariableSpan(s) ==
    IF s.kind = "event" THEN event_commands[s.id].OutputVariables
    ELSE _ALL_BEHAVIORS[s.id]._variables_ArrayIndexAndLength

EntityLinkSpan(s) ==
    IF s.kind = "event" THEN event_commands[s.id].OutputLinks
    ELSE _ALL_BEHAVIORS[s.id]._output_ArrayIndexAndLength

\* the lengths of the two command lists after the n-th entity was processed
VariablesAfter(n) ==
    IF n = Len(span_log) THEN Len(variable_link_commands)
    ELSE span_log[n + 1].variables_before

LinksAfter(n) ==
    IF n = Len(span_log) THEN Len(behavior_link_commands)
    ELSE span_log[n + 1].links_before

\* a span that is 0 for an entity without links, else has the given offset
\* and the number of links as its two fields
SpanIs(span, offset, count) ==
    IF count = 0 THEN span = 0
    ELSE span # 0 /\ SpanOffset(span) = offset /\ SpanLength(span) = count

\* C14: for every event and every drained Behavior the recorded variable
\* span is packed from the length of variable_link_commands before its links
\* were appended and the number of its links, the output span likewise from
\* behavior_link_commands; the records at offset..offset+n-1 are the records
\* of its own links in list order; an entity with no links has span 0 and
\* appends nothing.
C14_SpansLocateOwnRecords ==
    InPass =>
        \A n \in 1..Len(span_log) :
            LET s == span_log[n]
                variables == EntityVariables(s)
                links == EntityLinks(s)
            IN  /\ EntityVariableSpan(s)
                     = get_arrayindexandlength(s.variables_before, Len(variables))
                /\ SpanIs(EntityVariableSpan(s), s.variables_before, Len(variables))
                /\ VariablesAfter(n) = s.variables_before + Len(variables)
                /\ \A j \in 1..Len(variables) :
                      LET record == variable_link_commands[s.variables_before + j]
                      IN  /\ record.PropertyName = variables[j].property_name
                          /\ record.VariableLinkType = variables[j].link_type
                          /\ record.ConnectionIndex = variables[j].connection_index
                          /\ IF variables[j].variable_indexes = <<>>
                             THEN record.ArrayIndexAndLength = 0
                             ELSE SpanLength(record.ArrayIndexAndLength)
                                  = Len(variables[j].variable_indexes)
                /\ EntityLinkSpan(s)
                     = get_arrayindexandlength(s.links_before, Len(links))
                /\ SpanIs(EntityLinkSpan(s), s.links_before, Len(links))
                /\ LinksAfter(n) = s.links_before + Len(links)
                /\ \A k \in 1..Len(links) :
                      LET record == behavior_link_commands[s.links_before + k]
                          slot == LinkedBehavior(record.LinkIdAndLinkedBehavior) + 1
                      IN  /\ record.ActivateDelay = links[k].delay
                          /\ LinkId(record.LinkIdAndLinkedBehavior) = links[k].link_id
                          /\ slot <= Len(known_behaviors)
                          /\ behavior_eq(_ALL_BEHAVIORS, known_behaviors[slot],
                                         links[k].behavior) = "T"

\* a finished pass in which a drained Behavior has several variable links
\* and an output link, both at a nonzero offset, and an event has no
\* variable links
C14_Witness ==
    /\ pc = "done"
    /\ \E n \in 1..Len(span_log) :
          /\ span_log[n].kind = "behavior"
          /\ span_log[n].variables_before > 0
          /\ span_log[n].links_before > 0
          /\ Len(EntityVariables(span_log[n])) >= 2
          /\ Len(EntityLinks(span_log[n])) >= 1
    /\ \E n \in 1..Len(span_log) :
          /\ span_log[n].kind = "event"
          /\ EntityVariables(span_log[n]) = <<>>
          /\ EntityVariableSpan(span_log[n]) = 0

RECURSIVE Flatten(_)
Flatten(ss) == IF ss = <<>> THEN <<>> ELSE Head(ss) \o Flatten(Tail(ss))

\* the Behaviors pushed onto behavior_stack in this pass, in the order in
\* which the link lists mention them
Pushed == Flatten(fresh_log)

NoDuplicates(seq) == \A i, j \in 1..Len(seq) : seq[i] = seq[j] => i = j

\* the number of link records the entities processed so far own
RECURSIVE OwnedLinkRecords(_)
OwnedLinkRecords(n) ==
    IF n = 0 THEN 0
    ELSE OwnedLinkRecords(n - 1) + Len(EntityLinks(span_log[n]))

\* the popped Behaviors that are x, as `in` decides it
DrainedAs(x) ==
    {p \in Range(popped) : behavior_eq(_ALL_BEHAVIORS, p, x) = "T"}

\* C16: in a pass no Behavior is pushed twice or drained twice; what was
\* pushed is exactly what is drained or still on the stack; a Behavior is
\* in known_behaviors from the step that pushes it, so it is never pushed
\* again and its link records are appended once; and when the pass is done
\* every reachable Behavior has been pushed and drained exactly once, also
\* with self-links, cycles, repeated targets in one list and shared targets.
C16_PushedAndDrainedOnce ==
    InPass =>
        /\ NoDuplicates(Pushed)
        /\ NoDuplicates(popped)
        /\ NoDuplicates(behavior_stack)
        /\ Range(popped) \cap Range(behavior_stack) = {}
        /\ Range(popped) \cup Range(behavior_stack) = Range(Pushed)
        /\ Range(Pushed) = Range(known_behaviors)
        /\ NoDuplicates(known_behaviors)
        /\ Len(behavior_link_commands) = OwnedLinkRecords(Len(span_log))
        /\ pc = "done" =>
              /\ behavior_stack = <<>>
              /\ \A r \in Reachable : Cardinality(DrainedAs(r)) = 1
              /\ Range(popped) \subseteq Reachable

\* a finished pass over a graph in which an event links twice to one
\* Behavior that links to itself
C16_Witness ==
    /\ pc = "done"
    /\ _ALL_EVENTS[1].output_links = <<BehaviorLink(1, 0), BehaviorLink(1, 0)>>
    /\ _ALL_BEHAVIORS[1].output_links = <<BehaviorLink(1, -1)>>
    /\ popped = <<1>>
    /\ Len(behavior_link_commands) = 3

\* the Behaviors discovered by the entities n..m-1 of the pass
RECURSIVE DiscoveredFrom(_, _)
DiscoveredFrom(n, m) ==
    IF n >= m THEN {} ELSE Range(fresh_log[n]) \cup DiscoveredFrom(n + 1, m)

Drained(n) == span_log[n].kind = "behavior"

\* entity m is the first Behavior drained after entity n among those that
\* were pending on the stack when n was popped
FirstPendingAfter(n, m) ==
    /\ n < m
    /\ Drained(n)
    /\ Drained(m)
    /\ span_log[m].id \in Range(span_log[n].pending)
    /\ \A k \in (n + 1)..(m - 1) :
          ~(Drained(k) /\ span_log[k].id \in Range(span_log[n].pending))

\* C17: the traversal is depth-first.  Between the drain of a Behavior X
\* and the next drain of a Behavior that was pending when X was popped,
\* exactly the Behaviors X discovered and the ones these transitively
\* discovered are drained, all of them; and a finished pass has drained
\* everything that was ever pending.
C17_DepthFirst ==
    InPass =>
        /\ \A n, m \in 1..Len(span_log) :
              FirstPendingAfter(n, m) =>
                  /\ \A k \in (n + 1)..(m - 1) :
                        /\ Drained(k)
                        /\ span_log[k].id \in DiscoveredFrom(n, k)
                  /\ \A d \in DiscoveredFrom(n, m) :
                        \E k \in (n + 1)..(m - 1) : span_log[k].id = d
        /\ \A n \in 1..Len(span_log) :
              Drained(n) =>
                  /\ span_log[n].id \notin Range(span_log[n].pending)
                  /\ pc = "done" => Range(span_log[n].pending) \subseteq Range(popped)

\* OnEquip links to X and Y, X links to Z; X was popped first, so Z was
\* drained before the pending Y
C17_Witness ==
    /\ pc = "done"
    /\ Len(_ALL_EVENTS[1].output_links) = 2
    /\ \E x, y, z \in 1..Len(_ALL_BEHAVIORS) :
          /\ x # y /\ y # z /\ x # z
          /\ _ALL_BEHAVIORS[x].output_links = <<BehaviorLink(z, -1)>>
          /\ popped = <<x, z, y>>
          /\ span_log[2].pending = <<y>>

\* the behavior index encoded in the r-th link record
RecordIndex(r) == LinkedBehavior(behavior_link_commands[r].LinkIdAndLinkedBehavior)

\* the behavior indexes encoded in the link records, in the order of the records
RecordIndexes == [r \in 1..Len(behavior_link_commands) |-> RecordIndex(r)]

\* the first position of i in a sequence of indexes, 0 when it is not there
FirstPosition(indexes, i) ==
    IF \E r \in 1..Len(indexes) : indexes[r] = i
    THEN CHOOSE r \in 1..Len(indexes) :
             indexes[r] = i /\ \A q \in 1..(r - 1) : indexes[q] # i
    ELSE 0

\* the target of the link that each link record renders, in the order of
\* the records: the entities' link lists in the order of span_log
RECURSIVE RecordTargets(_)
RecordTargets(n) ==
    IF n = 0 THEN <<>>
    ELSE RecordTargets(n - 1)
         \o [k \in 1..Len(EntityLinks(span_log[n])) |->
                EntityLinks(span_log[n])[k].behavior]

\* C18: at every step of a pass the index encoded in a link record is the
\* position of the link's target in known_behaviors; every index of
\* known_behaviors is encoded by some record; the first record encoding i
\* renders a link to the very Behavior in slot i and comes after records
\* encoding smaller indexes only (the target received the next free index,
\* the length of known_behaviors at that time); so for i < j the first
\* record encoding i precedes the first record encoding j.
C18_IndexInOrderOfFirstReference ==
    InPass =>
        LET indexes == RecordIndexes
            targets == RecordTargets(Len(span_log))
            first == [i \in 0..(Len(known_behaviors) - 1) |->
                         FirstPosition(indexes, i)]
        IN  /\ Len(targets) = Len(indexes)
            /\ \A r \in 1..Len(indexes) :
                  /\ indexes[r] < Len(known_behaviors)
                  /\ SlotsOf(targets[r]) = {indexes[r] + 1}
            /\ \A i \in 0..(Len(known_behaviors) - 1) :
                  /\ first[i] # 0
                  /\ targets[first[i]] = known_behaviors[i + 1]
                  /\ \A q \in 1..(first[i] - 1) : indexes[q] < i
            /\ \A i, j \in 0..(Len(known_behaviors) - 1) :
                  i < j => first[i] < first[j]

\* a finished pass with several known Behaviors in which a later record,
\* with a negative link id, encodes a smaller index than an earlier one
C18_Witness ==
    /\ pc = "done"
    /\ Len(known_behaviors) >= 2
    /\ \E q, r \in 1..Len(behavior_link_commands) :
          /\ q < r
          /\ RecordIndex(r) < RecordIndex(q)
          /\ behavior_link_commands[r].LinkIdAndLinkedBehavior < 0

\* the variable link rendered by the r-th variable-link record
VariableLinkOfRecord(r) ==
    LET s == span_log[CHOOSE n \in 1..Len(span_log) :
                 /\ span_log[n].variables_before < r
                 /\ r <= span_log[n].variables_before
                           + Len(EntityVariables(span_log[n]))]
    IN  EntityVariables(s)[r - s.variables_before]

IdentityPrefix(pool) ==
    /\ Len(pool) >= Len(_ALL_VARIABLES)
    /\ \A i \in 1..Len(_ALL_VARIABLES) : pool[i] = i - 1

\* C19: during a pass variable_links begins with 0..N-1 for
\* N = len(_ALL_VARIABLES), and so does the ConsolidatedLinkedVariables
\* written at the end; every variable-link record written with a length
\* k >= 1 and an offset o finds, at the pool entries o..o+k-1, exactly the
\* variable_indexes of its link in order: for k = 1 inside the identity
\* prefix, for k > 1 in a run of its own behind the prefix.
C19_PoolResolvesLinks ==
    /\ InPass => IdentityPrefix(variable_links)
    /\ pc = "done" =>
          /\ written.ConsolidatedLinkedVariables = variable_links
          /\ written.ConsolidatedVariableLinkData = variable_link_commands
          /\ \A r \in 1..Len(variable_link_commands) :
                LET indexes == VariableLinkOfRecord(r).variable_indexes
                    packed == variable_link_commands[r].ArrayIndexAndLength
                    o == SpanOffset(packed)
                    k == SpanLength(packed)
                IN  /\ k = Len(indexes)
                    /\ k >= 1 =>
                          /\ o + k <= Len(variable_links)
                          /\ SubSeq(variable_links, o + 1, o + k) = indexes
                    /\ k = 1 => o < Len(_ALL_VARIABLES)
                    /\ k > 1 => o >= Len(_ALL_VARIABLES)

\* a finished pass that wrote a record of one index and records of two and
\* of three indexes, whose runs follow the prefix
C19_Witness ==
    /\ pc = "done"
    /\ Len(written.ConsolidatedLinkedVariables) >= Len(_ALL_VARIABLES) + 5
    /\ \E q, r \in 1..Len(variable_link_commands) :
          /\ VariableLinkOfRecord(q).variable_indexes = <<1>>
          /\ VariableLinkOfRecord(r).variable_indexes = <<1, 0, 1>>
          /\ SpanOffset(variable_link_commands[r].ArrayIndexAndLength)
               >= Len(_ALL_VARIABLES)

----------------------------------------------------------------------------
(* The whole of example.py, with more calls after it: the declarations,    *)
(* the three add_output_link calls and generate_bpd, then output links     *)
(* added to the graph and generate_bpd called again: SpecEdit.             *)

\* OnEquip.add_output_link(BehaviorLink(Behavior_ActivateSkill_0)) and
\* OnUnequip.add_output_link(BehaviorLink(Behavior_DeactivateSkill_0))
ExampleEventLinks(events) ==
    [events EXCEPT ![1].output_links = <<BehaviorLink(1, 0)>>,
                   ![2].output_links = <<BehaviorLink(2, 0)>>]

\* Behavior_DeactivateSkill_0.add_output_link(
\*     BehaviorLink(Behavior_DeactivateSkill_1, -1))
ExampleBehaviorLinks(behaviors) ==
    [behaviors EXCEPT ![2].output_links = <<BehaviorLink(3, -1)>>]

InitEdit ==
    /\ _ALL_VARIABLES = [i \in 1..NumVariables |-> i]
    /\ var_heap = [i \in 1..NumVariables |-> NewBpdVariable(i - 1)]
    /\ var_links = <<>>
    /\ call = NoCall
    /\ returned = <<>>
    /\ \E third \in ThirdLabels :
          \/ /\ _ALL_EVENTS = ExampleEventLinks(ExampleEvents)
             /\ _ALL_BEHAVIORS = ExampleBehaviorLinks(ExampleBehaviors(third))
          \/ /\ _ALL_EVENTS = ExampleEventLinks(VariedEvents)
             /\ _ALL_BEHAVIORS = ExampleBehaviorLinks(VariedBehaviors(third))
    /\ pc = "script"
    /\ exception = "None"
    /\ set_order = <<>>
    /\ InitLocals
    /\ InitHistory

\* e.add_output_link(BehaviorLink(b)) after a generate_bpd call
EventData_add_output_link_late(e, b) ==
    /\ pc \in {"done", "edited"}
    /\ late_links < MaxLateLinks
    /\ pc' = "edited"
    /\ late_links' = late_links + 1
    /\ _ALL_EVENTS' = [_ALL_EVENTS EXCEPT
                          ![e].output_links = Append(@, BehaviorLink(b, 0))]
    /\ UNCHANGED <<registry_vars, _ALL_BEHAVIORS, local_vars, written, passes,
                   first_written, popped, fresh_log, span_log, stamped,
                   exception, set_order>>

\* a.add_output_link(BehaviorLink(b, -1)) after a generate_bpd call
Behavior_add_output_link_late(a, b) ==
    /\ pc \in {"done", "edited"}
    /\ late_links < MaxLateLinks
    /\ pc' = "edited"
    /\ late_links' = late_links + 1
    /\ _ALL_BEHAVIORS' = [_ALL_BEHAVIORS EXCEPT
                             ![a].output_links = Append(@, BehaviorLink(b, -1))]
    /\ UNCHANGED <<registry_vars, _ALL_EVENTS, local_vars, written, passes,
                   first_written, popped, fresh_log, span_log, stamped,
                   exception, set_order>>

NextEdit ==
    \/ \E e \in 1..Len(_ALL_EVENTS), b \in 1..Len(_ALL_BEHAVIORS) :
           EventData_add_output_link_late(e, b)
    \/ \E a, b \in 1..Len(_ALL_BEHAVIORS) : Behavior_add_output_link_late(a, b)
    \/ generate_bpd_begin
    \/ generate_bpd_event
    \/ generate_bpd_drain
    \/ generate_bpd_write

SpecEdit == InitEdit /\ [][NextEdit]_vars

----------------------------------------------------------------------------
(* Properties of the scratch fields across passes, checked under SpecEdit. *)

\* the span_log entry of a Behavior drained in this pass
DrainEntry(b) ==
    span_log[CHOOSE n \in 1..Len(span_log) :
                 span_log[n].kind = "behavior" /\ span_log[n].id = b]

\* C15: when a pass has written its file, every Behavior rendered into
\* BehaviorData2 was drained in that pass, both its scratch fields were
\* assigned in that pass, and the two values rendered are the spans this
\* pass computed for it, also when links were added since the pass before.
C15_ScratchWrittenThisPass ==
    pc = "done" =>
        /\ Len(written.BehaviorData2) = Len(known_behaviors)
        /\ \A i \in 1..Len(known_behaviors) :
              LET b == known_behaviors[i]
              IN  /\ b \in Range(popped)
                  /\ stamped[b] = <<passes, passes>>
                  /\ written.BehaviorData2[i].Behavior = _ALL_BEHAVIORS[b].behavior
                  /\ written.BehaviorData2[i].LinkedVariables
                       = get_arrayindexandlength(
                             DrainEntry(b).variables_before,
                             Len(_ALL_BEHAVIORS[b].linked_variables))
                  /\ written.BehaviorData2[i].OutputLinks
                       = get_arrayindexandlength(
                             DrainEntry(b).links_before,
                             Len(_ALL_BEHAVIORS[b].output_links))

\* a second pass, after a link was added, rendered a Behavior of the first
\* pass with another output span and another variable span
C15_Witness ==
    /\ pc = "done"
    /\ passes = 2
    /\ late_links >= 1
    /\ \E i \in 1..Len(written.BehaviorData2),
          j \in 1..Len(first_written.BehaviorData2) :
          /\ known_behaviors[i] = 2
          /\ first_written.BehaviorData2[j].Behavior
               = written.BehaviorData2[i].Behavior
          /\ first_written.BehaviorData2[j].OutputLinks # 0
          /\ first_written.BehaviorData2[j].OutputLinks
               # written.BehaviorData2[i].OutputLinks
          /\ first_written.BehaviorData2[j].LinkedVariables
               # written.BehaviorData2[i].LinkedVariables

====
